---- MODULE Spec2Model ----
(***************************************************************************)
(* Rider earnings and cash-out settlement of fast-courier-server.          *)
(*                                                                         *)
(* src/index.js holds three successive revisions of the server.  The       *)
(* cash-out handler POST /rider/cash-out exists in revision 2 (lines       *)
(* 866-986) and revision 3 (lines 1199-1313).  The variable rev fixes      *)
(* which revision is deployed; both handlers work on the same two          *)
(* collections (parcels and cashouts).                                     *)
(*                                                                         *)
(* A handler is an async function: it runs without interruption up to the  *)
(* next await and the store applies each awaited call atomically.  One    *)
(* action of the model is one store call together with the synchronous     *)
(* code that follows it up to the next await (or up to the response).      *)
(*                                                                         *)
(* Money: the handler computes cost * 0.1 and cost * 0.2 in floating       *)
(* point.  The costs of the model are multiples of 1000, for which both    *)
(* products are exact, so amounts are integers here.                       *)
(*                                                                         *)
(* Absent document fields: paid_amount and earning are read through        *)
(* "|| 0" and earning_paid through truthiness / $ne: true, so an absent    *)
(* field is modelled by 0 and FALSE.                                       *)
(*                                                                         *)
(* Specifications: Spec (cash-out requests interleaved), SpecSeq (served   *)
(* one at a time), SpecSeqAnyOrder (the same on parcels assigned in any    *)
(* order) and SpecParcels (POST /parcels, assign-rider and update-status   *)
(* from an empty store), SpecSeqRev2 (revision 2 alone, no store failure)  *)
(* and SpecAssign1 (assign-rider of revision 1, lines 206-217, which reads *)
(* and writes the riders collection).                                      *)
(* The cash-out handler reads neither assigned_at                          *)
(* nor the caller's token, so Spec and SpecSeq fix the former to the       *)
(* order of creation.                                                      *)
(***************************************************************************)
EXTENDS Integers, Sequences, FiniteSets, TLC

\* ------------------------------------------------------------------ bounds
NumParcels == 2
NumRequests == 2
MaxFailures == 1
MaxAssignments == 3

\* ------------------------------------------------------- program constants
MinCashOut == 200

ParcelIds == 1..NumParcels
ReqIds == 1..NumRequests
Riders == {"r1", "r2"}
NoParcel == 0
NoRider == "none"
Terminal == {"delivered", "service-center-delivered"}

\* What a client can send as a parcel: cost and the two regions.
ParcelKinds ==
  { [cost |-> 1000, sender_region |-> "dhaka", receiver_region |-> "dhaka"],
    [cost |-> 1000, sender_region |-> "dhaka", receiver_region |-> "sylhet"],
    [cost |-> 3000, sender_region |-> "dhaka", receiver_region |-> "dhaka"] }

\* Where the logistics side has brought a parcel: who carries it and how far.
Assignments ==
  { [assigned_rider |-> "r1", delivery_status |-> "delivered"],
    [assigned_rider |-> "r1", delivery_status |-> "in-transit"],
    [assigned_rider |-> "r2", delivery_status |-> "delivered"] }

\* assigned_at: new Date() of assign-rider.  The parcels, created in the order
\* of their ids, are assigned in any order, one after the other.
AssignmentOrders ==
  { t \in [ParcelIds -> 1..NumParcels] : \A i, j \in ParcelIds : t[i] = t[j] => i = j }

\* req.body.amount; 0 stands for a missing amount (both are falsy).
Amounts == {0, 100, 200, 300}

\* req.body of POST /rider/cash-out: a named parcel (one id names no parcel
\* of the store), or a rider's email, or neither.
Bodies ==
  [parcelId : ParcelIds \cup {NumParcels + 1}, riderEmail : {"r1"}, amount : Amounts]
  \cup [parcelId : {NoParcel}, riderEmail : Riders \cup {NoRider}, amount : Amounts]

\* req.decoded of verifyFBToken: whose token request r carries.  verifyRider
\* lets any rider through; the requests come from the two riders in turn.
decoded(r) == [email |-> IF r % 2 = 1 THEN "r1" ELSE "r2"]

VARIABLES
  rev,                \* deployed revision of the handler, 2 or 3 (1 in SpecAssign1)
  parcelsCollection,  \* parcel id -> parcel document
  cashOutCollection,  \* the ledger: sequence of cash-out documents
  pc,                 \* request -> position of its handler
  body,               \* request -> req.body
  parcels,            \* request -> documents its read returned, not yet processed
  remainingAmount,    \* request -> what is left to distribute
  cashOutRecords,     \* request -> records collected for insertMany
  res,                \* request -> response sent
  seen,               \* request in its handler -> the rider's total_available
                      \*   when the request read the store
  reads,              \* request -> number of store reads it has had answered
  writes,             \* request -> number of store writes it has had applied
  failures,           \* store calls that have thrown so far
  ridersCollection    \* rider email -> work_status of the rider's document

vars == << rev, parcelsCollection, cashOutCollection, pc, body, parcels,
           remainingAmount, cashOutRecords, res, seen, reads, writes, failures,
           ridersCollection >>

\* ------------------------------------------------------------------ helpers
\* Math.min
Min(a, b) == IF a <= b THEN a ELSE b

\* ----------------------------------------------------------- the handlers
\* totalEarning / total: cost * 0.1 within a region, cost * 0.2 across regions
totalEarning(p) ==
  IF p.sender_region = p.receiver_region THEN p.cost \div 10 ELSE p.cost \div 5

\* a handler that only rejects a missing amount
BelowMinimum_missingOnly(amount) == amount = 0

\* if (!amount || amount < 200)
BelowMinimum(amount) == amount = 0 \/ amount < MinCashOut

\* the place of a parcel that POST /parcels has not inserted yet
NotInStore ==
  [cost |-> 0, sender_region |-> "none", receiver_region |-> "none",
   assigned_rider |-> NoRider, delivery_status |-> "none", assigned_at |-> 0,
   earning |-> 0, paid_amount |-> 0, earning_paid |-> FALSE]

\* findOne({_id: i}) returns a document
Exists(i) == i \in ParcelIds /\ parcelsCollection[i] # NotInStore

\* A parcel document as a query returns it.
Doc(i) == [_id |-> i] @@ parcelsCollection[i]

RECURSIVE Ascending(_)
\* the ids of S in the store's natural (insertion) order
Ascending(S) ==
  IF S = {} THEN << >>
  ELSE LET m == CHOOSE x \in S : \A y \in S : x <= y
       IN  << m >> \o Ascending(S \ {m})

Docs(S) == [k \in 1..Cardinality(S) |-> Doc(Ascending(S)[k])]

\* revision 2: find({"assigned_rider.email": riderEmail, delivery_status: {$in: [...]}})
find2(riderEmail) ==
  Docs({ i \in ParcelIds :
           /\ parcelsCollection[i].assigned_rider = riderEmail
           /\ parcelsCollection[i].delivery_status \in Terminal })

\* revision 3: the same query with earning_paid: {$ne: true}
find3(email) ==
  Docs({ i \in ParcelIds :
           /\ parcelsCollection[i].assigned_rider = email
           /\ parcelsCollection[i].delivery_status \in Terminal
           /\ parcelsCollection[i].earning_paid # TRUE })

\* a balance that forgets what has been paid already
available_ignoringPaid(p) == totalEarning(p)

\* revision 2: available = total - paid of one document
available(p) == totalEarning(p) - p.paid_amount

RECURSIVE totalAvailable2_ignoringPaid(_)
\* a reduce that forgets what has been paid already
totalAvailable2_ignoringPaid(ps) ==
  IF ps = << >> THEN 0
  ELSE totalEarning(Head(ps)) + totalAvailable2_ignoringPaid(Tail(ps))

RECURSIVE totalAvailable2(_)
\* revision 2: parcels.reduce((sum, p) => sum + (total - paid), 0)
totalAvailable2(ps) ==
  IF ps = << >> THEN 0 ELSE available(Head(ps)) + totalAvailable2(Tail(ps))

RECURSIVE totalAvailable3(_)
\* revision 3: parcels.reduce((sum, p) => sum + (p.earning || 0), 0)
totalAvailable3(ps) ==
  IF ps = << >> THEN 0 ELSE Head(ps).earning + totalAvailable3(Tail(ps))

RECURSIVE skip2(_, _)
\* revision 2: the for loop run forward, without a store call, to the next
\* parcel it pays: it breaks when nothing remains and passes over a parcel
\* whose available is not positive.  The result is what is left to process.
skip2(ps, remaining) ==
  IF ps = << >> \/ remaining <= 0 THEN << >>
  ELSE IF available(Head(ps)) > 0 THEN ps
  ELSE skip2(Tail(ps), remaining)

\* revision 3: the for loop only breaks when nothing remains
skip3(ps, remaining) == IF remaining <= 0 THEN << >> ELSE ps

\* the commission of document p as the deployed handler takes it: revision 2
\* computes totalEarning, revision 3 reads parcel.earning || 0
commissionUsed(p) == IF rev = 2 THEN totalEarning(p) ELSE p.earning

\* revision 3, named parcel: Math.min(amount, parcel.earning || 0)
cashOutAmount(amount, parcel) == Min(amount, parcel.earning)

\* ------------------------------------------- vocabulary of the specification
\* (what the claims speak of; a request records it in seen when it reads)
\* The rider's parcels that are assigned, terminal and not flagged settled.
eligible_parcels(rider) ==
  { i \in ParcelIds :
      /\ parcelsCollection[i].assigned_rider = rider
      /\ parcelsCollection[i].delivery_status \in Terminal
      /\ ~parcelsCollection[i].earning_paid }

RECURSIVE SumOver(_, _)
SumOver(S, f) ==
  IF S = {} THEN 0
  ELSE LET x == CHOOSE y \in S : TRUE IN f[x] + SumOver(S \ {x}, f)

\* sum of earning - paid_amount over the rider's eligible parcels
total_available(rider) ==
  SumOver(eligible_parcels(rider),
          [i \in ParcelIds |->
             totalEarning(parcelsCollection[i]) - parcelsCollection[i].paid_amount])

\* the rider's eligible parcels in the order of the store, each with its
\* outstanding balance earning - paid_amount
owed(rider) ==
  LET ids == Ascending(eligible_parcels(rider))
  IN  [k \in 1..Len(ids) |->
         [parcelId |-> ids[k],
          outstanding |-> totalEarning(parcelsCollection[ids[k]])
                            - parcelsCollection[ids[k]].paid_amount]]

\* what a request has seen: nothing, or a rider's total_available and the
\* balances it is made of
NotRead == [rider |-> NoRider, avail |-> 0, owed |-> << >>]
Saw(rider) == [rider |-> rider, avail |-> total_available(rider), owed |-> owed(rider)]

\* ---------------------------------------------------------------- Init
\* the parcels were assigned in the order in which they were created
CreationOrder == [i \in ParcelIds |-> i]

\* The store when the first cash-out request arrives: parcels as POST /parcels
\* created them and as the logistics side has assigned and moved them, their
\* assignment times being one of orders; no cash-out has been made.
InitStore(orders) ==
  /\ \E kind \in [ParcelIds -> ParcelKinds], at \in [ParcelIds -> Assignments],
        stored \in [ParcelIds -> BOOLEAN], assigned_at \in orders :
       \* The earning field: revision 2 writes it at a parcel's first payout
       \* and never reads it, so its parcels start without it.  Revision 3
       \* only reads it: each of its parcels carries the commission or lacks
       \* the field.
       /\ rev = 2 => \A i \in ParcelIds : ~stored[i]
       /\ parcelsCollection =
            [i \in ParcelIds |->
               [cost |-> kind[i].cost,
                sender_region |-> kind[i].sender_region,
                receiver_region |-> kind[i].receiver_region,
                assigned_rider |-> at[i].assigned_rider,
                delivery_status |-> at[i].delivery_status,
                assigned_at |-> assigned_at[i],
                earning |-> IF stored[i] THEN totalEarning(kind[i]) ELSE 0,
                paid_amount |-> 0,
                earning_paid |-> FALSE]]
  /\ cashOutCollection = << >>
  /\ ridersCollection = [e \in Riders |-> "available"]

\* no request has arrived
InitRequests ==
  /\ pc = [r \in ReqIds |-> "idle"]
  /\ body = [r \in ReqIds |-> [parcelId |-> NoParcel, riderEmail |-> NoRider, amount |-> 0]]
  /\ parcels = [r \in ReqIds |-> << >>]
  /\ remainingAmount = [r \in ReqIds |-> 0]
  /\ cashOutRecords = [r \in ReqIds |-> << >>]
  /\ res = [r \in ReqIds |-> "none"]
  /\ seen = [r \in ReqIds |-> NotRead]
  /\ reads = [r \in ReqIds |-> 0]
  /\ writes = [r \in ReqIds |-> 0]
  /\ failures = 0

Init ==
  /\ rev \in {2, 3}
  /\ InitStore({CreationOrder})
  /\ InitRequests

\* the same, the parcels having been assigned in any order
InitAnyOrder ==
  /\ rev \in {2, 3}
  /\ InitStore(AssignmentOrders)
  /\ InitRequests

\* the response is sent and the handler's locals are gone
Respond(r, response) ==
  /\ res' = [res EXCEPT ![r] = response]
  /\ pc' = [pc EXCEPT ![r] = "done"]
  /\ parcels' = [parcels EXCEPT ![r] = << >>]
  /\ remainingAmount' = [remainingAmount EXCEPT ![r] = 0]
  /\ cashOutRecords' = [cashOutRecords EXCEPT ![r] = << >>]
  /\ seen' = [seen EXCEPT ![r] = NotRead]

\* the handler goes on to its next store call
Goto(r, call) ==
  /\ pc' = [pc EXCEPT ![r] = call]
  /\ UNCHANGED res

\* POST /rider/cash-out arrives: the code before the first store call
Request(r) ==
  /\ pc[r] = "idle"
  /\ IF r = 1 THEN TRUE ELSE pc[r - 1] # "idle"
  /\ \E b \in Bodies :
       /\ body' = [body EXCEPT ![r] = b]
       /\ IF BelowMinimum(b.amount) THEN Respond(r, "BelowMinimum")
          ELSE IF b.parcelId # NoParcel THEN
            /\ Goto(r, "findOne")
            /\ UNCHANGED << parcels, remainingAmount, cashOutRecords, seen >>
          ELSE IF b.riderEmail # NoRider THEN
            /\ Goto(r, "find")
            /\ UNCHANGED << parcels, remainingAmount, cashOutRecords, seen >>
          ELSE Respond(r, "BadRequest")
  /\ UNCHANGED << rev, ridersCollection, parcelsCollection, cashOutCollection, reads, writes, failures >>

\* one cash-out document; req is the request that wrote it (the code has the
\* date in its place)
Record(r, rider, p, amount) ==
  [req |-> r, riderEmail |-> rider, parcelId |-> p._id, amount |-> amount]

\* ---------------------------------------------- revision 2, a named parcel
\* findOne({_id}) and the checks up to the call of updateOne
FindOne2(r) ==
  /\ rev = 2 /\ pc[r] = "findOne"
  /\ IF ~Exists(body[r].parcelId)
     THEN Respond(r, "ParcelNotFound")
     ELSE LET parcel == Doc(body[r].parcelId)
              alreadyPaid == parcel.paid_amount
              remaining == totalEarning(parcel) - alreadyPaid
          IN  IF remaining <= 0 THEN Respond(r, "AlreadyPaid")
              ELSE IF body[r].amount > remaining
              THEN Respond(r, "InsufficientEarnings")
              ELSE /\ parcels' = [parcels EXCEPT ![r] = << parcel >>]
                   /\ seen' = [seen EXCEPT ![r] = Saw(parcel.assigned_rider)]
                   /\ Goto(r, "updateOne")
                   /\ UNCHANGED << remainingAmount, cashOutRecords >>
  /\ reads' = [reads EXCEPT ![r] = @ + 1]
  /\ UNCHANGED << rev, ridersCollection, parcelsCollection, cashOutCollection, body, writes, failures >>

\* updateOne({_id}, {$inc: {paid_amount: amount}, $set: {earning, earning_paid}})
UpdateOne2(r) ==
  /\ rev = 2 /\ pc[r] = "updateOne"
  /\ LET parcel == Head(parcels[r])
         alreadyPaid == parcel.paid_amount
         amount == body[r].amount
     IN  parcelsCollection' =
           [parcelsCollection EXCEPT
              ![parcel._id].paid_amount = @ + amount,
              ![parcel._id].earning = totalEarning(parcel),
              ![parcel._id].earning_paid = (alreadyPaid + amount >= totalEarning(parcel))]
  /\ writes' = [writes EXCEPT ![r] = @ + 1]
  /\ pc' = [pc EXCEPT ![r] = "insertOne"]
  /\ UNCHANGED << rev, ridersCollection, cashOutCollection, body, parcels, remainingAmount,
                  cashOutRecords, res, seen, reads, failures >>

\* cashOutCollection.insertOne({...amount}) and the 200 response
InsertOne2(r) ==
  /\ rev = 2 /\ pc[r] = "insertOne"
  /\ cashOutCollection' =
       Append(cashOutCollection,
              Record(r, body[r].riderEmail, Head(parcels[r]), body[r].amount))
  /\ writes' = [writes EXCEPT ![r] = @ + 1]
  /\ Respond(r, "Success")
  /\ UNCHANGED << rev, ridersCollection, parcelsCollection, body, reads, failures >>

\* ------------------------------------------ revision 2, all of the rider's
\* find(...).toArray(), the two checks, and the loop up to its first updateOne
Find2(r) ==
  /\ rev = 2 /\ pc[r] = "find"
  /\ LET ps == find2(body[r].riderEmail)
         amount == body[r].amount
     IN  IF ps = << >> THEN Respond(r, "NoEarningsAvailable")
         ELSE IF amount > totalAvailable2(ps) THEN Respond(r, "InsufficientEarnings")
         ELSE /\ remainingAmount' = [remainingAmount EXCEPT ![r] = amount]
              /\ parcels' = [parcels EXCEPT ![r] = skip2(ps, amount)]
              /\ seen' = [seen EXCEPT ![r] = Saw(body[r].riderEmail)]
              /\ Goto(r, IF skip2(ps, amount) = << >> THEN "insertMany" ELSE "loop")
              /\ UNCHANGED cashOutRecords
  /\ reads' = [reads EXCEPT ![r] = @ + 1]
  /\ UNCHANGED << rev, ridersCollection, parcelsCollection, cashOutCollection, body, writes, failures >>

\* one updateOne of the loop, the push, and the loop up to its next updateOne
Loop2(r) ==
  /\ rev = 2 /\ pc[r] = "loop"
  /\ LET p == Head(parcels[r])
         total == totalEarning(p)
         paid == p.paid_amount
         pay == Min(remainingAmount[r], available(p))
         rest == skip2(Tail(parcels[r]), remainingAmount[r] - pay)
     IN  /\ parcelsCollection' =
               [parcelsCollection EXCEPT
                  ![p._id].paid_amount = @ + pay,
                  ![p._id].earning = total,
                  ![p._id].earning_paid = (paid + pay >= total)]
         /\ remainingAmount' = [remainingAmount EXCEPT ![r] = @ - pay]
         /\ cashOutRecords' =
               [cashOutRecords EXCEPT ![r] = Append(@, Record(r, body[r].riderEmail, p, pay))]
         /\ parcels' = [parcels EXCEPT ![r] = rest]
         /\ pc' = [pc EXCEPT ![r] = IF rest = << >> THEN "insertMany" ELSE "loop"]
  /\ writes' = [writes EXCEPT ![r] = @ + 1]
  /\ UNCHANGED << rev, ridersCollection, cashOutCollection, body, res, seen, reads, failures >>

\* an insert that replaces the collection by the new records
InsertMany_replacing(r) ==
  /\ pc[r] = "insertMany"
  /\ cashOutCollection' = cashOutRecords[r]
  /\ writes' = [writes EXCEPT ![r] = @ + 1]
  /\ Respond(r, "Success")
  /\ UNCHANGED << rev, ridersCollection, parcelsCollection, body, reads, failures >>

\* cashOutCollection.insertMany(cashOutRecords) and the 200 response (both revisions)
InsertMany(r) ==
  /\ pc[r] = "insertMany"
  /\ cashOutCollection' = cashOutCollection \o cashOutRecords[r]
  /\ writes' = [writes EXCEPT ![r] = @ + 1]
  /\ Respond(r, "Success")
  /\ UNCHANGED << rev, ridersCollection, parcelsCollection, body, reads, failures >>

\* ---------------------------------------------- revision 3, a named parcel
\* findOne({_id}) and the earning_paid check
FindOne3(r) ==
  /\ rev = 3 /\ pc[r] = "findOne"
  /\ IF ~Exists(body[r].parcelId)
     THEN Respond(r, "ParcelNotFound")
     ELSE LET parcel == Doc(body[r].parcelId)
          IN  IF parcel.earning_paid THEN Respond(r, "AlreadyPaid")
              ELSE /\ parcels' = [parcels EXCEPT ![r] = << parcel >>]
                   /\ seen' = [seen EXCEPT ![r] = Saw(parcel.assigned_rider)]
                   /\ Goto(r, "updateOne")
                   /\ UNCHANGED << remainingAmount, cashOutRecords >>
  /\ reads' = [reads EXCEPT ![r] = @ + 1]
  /\ UNCHANGED << rev, ridersCollection, parcelsCollection, cashOutCollection, body, writes, failures >>

\* updateOne({_id}, {$set: {earning_paid: true}})
UpdateOne3(r) ==
  /\ rev = 3 /\ pc[r] = "updateOne"
  /\ parcelsCollection' =
       [parcelsCollection EXCEPT ![Head(parcels[r])._id].earning_paid = TRUE]
  /\ writes' = [writes EXCEPT ![r] = @ + 1]
  /\ pc' = [pc EXCEPT ![r] = "insertOne"]
  /\ UNCHANGED << rev, ridersCollection, cashOutCollection, body, parcels, remainingAmount,
                  cashOutRecords, res, seen, reads, failures >>

\* cashOutCollection.insertOne({...amount: cashOutAmount}) and the 200 response
InsertOne3(r) ==
  /\ rev = 3 /\ pc[r] = "insertOne"
  /\ LET parcel == Head(parcels[r])
     IN  cashOutCollection' =
           Append(cashOutCollection,
                  Record(r, parcel.assigned_rider, parcel,
                         cashOutAmount(body[r].amount, parcel)))
  /\ writes' = [writes EXCEPT ![r] = @ + 1]
  /\ Respond(r, "Success")
  /\ UNCHANGED << rev, ridersCollection, parcelsCollection, body, reads, failures >>

\* ------------------------------------------ revision 3, all of the rider's
Find3(r) ==
  /\ rev = 3 /\ pc[r] = "find"
  /\ LET ps == find3(body[r].riderEmail)
         amount == body[r].amount
     IN  IF Len(ps) = 0 THEN Respond(r, "NoEarningsAvailable")
         ELSE IF amount > totalAvailable3(ps) THEN Respond(r, "InsufficientEarnings")
         ELSE /\ remainingAmount' = [remainingAmount EXCEPT ![r] = amount]
              /\ parcels' = [parcels EXCEPT ![r] = skip3(ps, amount)]
              /\ seen' = [seen EXCEPT ![r] = Saw(body[r].riderEmail)]
              /\ Goto(r, IF skip3(ps, amount) = << >> THEN "insertMany" ELSE "loop")
              /\ UNCHANGED cashOutRecords
  /\ reads' = [reads EXCEPT ![r] = @ + 1]
  /\ UNCHANGED << rev, ridersCollection, parcelsCollection, cashOutCollection, body, writes, failures >>

Loop3(r) ==
  /\ rev = 3 /\ pc[r] = "loop"
  /\ LET p == Head(parcels[r])
         pay == Min(remainingAmount[r], p.earning)
         rest == skip3(Tail(parcels[r]), remainingAmount[r] - pay)
     IN  /\ parcelsCollection' = [parcelsCollection EXCEPT ![p._id].earning_paid = TRUE]
         /\ remainingAmount' = [remainingAmount EXCEPT ![r] = @ - pay]
         /\ cashOutRecords' =
               [cashOutRecords EXCEPT ![r] = Append(@, Record(r, body[r].riderEmail, p, pay))]
         /\ parcels' = [parcels EXCEPT ![r] = rest]
         /\ pc' = [pc EXCEPT ![r] = IF rest = << >> THEN "insertMany" ELSE "loop"]
  /\ writes' = [writes EXCEPT ![r] = @ + 1]
  /\ UNCHANGED << rev, ridersCollection, cashOutCollection, body, res, seen, reads, failures >>

\* ------------------------------------------------------------ store failure
\* An awaited store call rejects: the catch block answers 500.  The call has
\* had no effect on the store.
StoreCalls == {"findOne", "find", "updateOne", "insertOne", "loop", "insertMany"}

Throw(r) ==
  /\ pc[r] \in StoreCalls
  /\ failures < MaxFailures
  /\ failures' = failures + 1
  /\ Respond(r, "ServerError")
  /\ UNCHANGED << rev, ridersCollection, parcelsCollection, cashOutCollection, body, reads, writes >>

\* the steps of a request that has arrived
Work(r) ==
  \/ FindOne2(r) \/ UpdateOne2(r) \/ InsertOne2(r)
  \/ Find2(r) \/ Loop2(r)
  \/ FindOne3(r) \/ UpdateOne3(r) \/ InsertOne3(r)
  \/ Find3(r) \/ Loop3(r)
  \/ InsertMany(r)
  \/ Throw(r)

Next == \E r \in ReqIds : Request(r) \/ Work(r)

Spec == Init /\ [][Next]_vars

\* Requests served one at a time: a request arrives only when no other is
\* in its handler.
Quiet == \A r \in ReqIds : pc[r] \in {"idle", "done"}

RequestSeq(r) == Quiet /\ Request(r)

NextSeq == \E r \in ReqIds : RequestSeq(r) \/ Work(r)

SpecSeq == Init /\ [][NextSeq]_vars

\* Revision 2 alone, its requests served one at a time and every store call
\* succeeding.
InitRev2 == Init /\ rev = 2

Work2(r) ==
  \/ FindOne2(r) \/ UpdateOne2(r) \/ InsertOne2(r)
  \/ Find2(r) \/ Loop2(r)
  \/ InsertMany(r)

NextSeqRev2 == \E r \in ReqIds : RequestSeq(r) \/ Work2(r)

SpecSeqRev2 == InitRev2 /\ [][NextSeqRev2]_vars

\* Requests served one at a time on parcels assigned in any order.
SpecSeqAnyOrder == InitAnyOrder /\ [][NextSeq]_vars

\* ------------------------------------------------- the parcel handlers
\* Earnings fields a client can put into the body of POST /parcels: none, or
\* a paid_amount and an earning_paid of its own.
BodyExtras ==
  { [earning |-> 0, paid_amount |-> 0, earning_paid |-> FALSE],
    [earning |-> 0, paid_amount |-> 500, earning_paid |-> TRUE] }

\* delivery_status in the body of assign-rider
AssignStatuses == {"rider-assigned"}

\* newStatus of update-status: revision 2 stores whatever it is given,
\* revision 3 accepts "in-transit" and "delivered"
UpdateStatuses ==
  IF rev = 2 THEN {"in-transit", "delivered", "service-center-delivered"}
  ELSE {"in-transit", "delivered"}

\* new Date() of assign-rider: later than every assigned_at of the store
Now ==
  1 + (CHOOSE t \in 0..MaxAssignments :
         /\ \A i \in ParcelIds : parcelsCollection[i].assigned_at <= t
         /\ t = 0 \/ \E i \in ParcelIds : parcelsCollection[i].assigned_at = t)

\* the store before any parcel has been created
InitEmpty ==
  /\ rev \in {2, 3}
  /\ parcelsCollection = [i \in ParcelIds |-> NotInStore]
  /\ cashOutCollection = << >>
  /\ ridersCollection = [e \in Riders |-> "available"]
  /\ InitRequests

\* POST /parcels: insertOne({...req.body, createdAt, payment_status: "unpaid",
\* delivery_status: "pending"}); the parcels get their ids in turn
PostParcels(i) ==
  /\ ~Exists(i)
  /\ IF i = 1 THEN TRUE ELSE Exists(i - 1)
  /\ \E kind \in ParcelKinds, extra \in BodyExtras :
       parcelsCollection' =
         [parcelsCollection EXCEPT ![i] =
            [cost |-> kind.cost,
             sender_region |-> kind.sender_region,
             receiver_region |-> kind.receiver_region,
             assigned_rider |-> NoRider,
             delivery_status |-> "pending",
             assigned_at |-> 0,
             earning |-> extra.earning,
             paid_amount |-> extra.paid_amount,
             earning_paid |-> extra.earning_paid]]
  /\ UNCHANGED << rev, ridersCollection, cashOutCollection, pc, body, parcels, remainingAmount,
                  cashOutRecords, res, seen, reads, writes, failures >>

\* PATCH /parcels/assign-rider/:id: updateOne({_id}, {$set: {assigned_rider,
\* delivery_status, assigned_at: new Date()}}).  (Revision 2 first reads the
\* parcel to answer 404 when there is none; the update itself applies to
\* the parcel the store holds when it is made.)
AssignRider(i) ==
  /\ Exists(i)
  /\ Now <= MaxAssignments
  /\ \E assigned_rider \in Riders, delivery_status \in AssignStatuses :
       parcelsCollection' =
         [parcelsCollection EXCEPT ![i].assigned_rider = assigned_rider,
                                   ![i].delivery_status = delivery_status,
                                   ![i].assigned_at = Now]
  /\ UNCHANGED << rev, ridersCollection, cashOutCollection, pc, body, parcels, remainingAmount,
                  cashOutRecords, res, seen, reads, writes, failures >>

\* PATCH /parcels/update-status/:id: updateOne({_id}, {$set: {delivery_status:
\* newStatus, updatedAt}})
UpdateStatus(i) ==
  /\ Exists(i)
  /\ \E newStatus \in UpdateStatuses :
       parcelsCollection' = [parcelsCollection EXCEPT ![i].delivery_status = newStatus]
  /\ UNCHANGED << rev, ridersCollection, cashOutCollection, pc, body, parcels, remainingAmount,
                  cashOutRecords, res, seen, reads, writes, failures >>

NextParcels == \E i \in ParcelIds : PostParcels(i) \/ AssignRider(i) \/ UpdateStatus(i)

\* The parcel handlers alone, from an empty store.
SpecParcels == InitEmpty /\ [][NextParcels]_vars

\* ------------------------------------- revision 1: assign-rider (206-217)
\* In this specification the requests are PATCH /parcels/assign-rider/:id
\* requests of an admin: body[r] holds the parcel id of the path and the
\* email of req.body.assigned_rider.  Revision 1 has no cash-out.  Its
\* parcels carry price and weight, which the handler does not read; the
\* fields of the later revisions are left as they are in an empty place.
InitAssign1 ==
  /\ rev = 1
  /\ parcelsCollection =
       [i \in ParcelIds |-> [NotInStore EXCEPT !.delivery_status = "pending"]]
  /\ cashOutCollection = << >>
  /\ ridersCollection \in [Riders -> {"available", "in-delivery"}]
  /\ InitRequests

\* the request arrives; the handler calls ridersCollection.findOne
AssignRequest1(r) ==
  /\ pc[r] = "idle"
  /\ IF r = 1 THEN TRUE ELSE pc[r - 1] # "idle"
  /\ \E i \in ParcelIds, e \in Riders :
       body' = [body EXCEPT ![r] = [parcelId |-> i, riderEmail |-> e, amount |-> 0]]
  /\ Goto(r, "findRider")
  /\ UNCHANGED << rev, ridersCollection, parcelsCollection, cashOutCollection, parcels,
                  remainingAmount, cashOutRecords, seen, reads, writes, failures >>

\* findOne({email, status: "active", work_status: "available"}) and the 404
FindRider1(r) ==
  /\ rev = 1 /\ pc[r] = "findRider"
  /\ IF ridersCollection[body[r].riderEmail] = "available"
     THEN /\ Goto(r, "updateParcel")
          /\ UNCHANGED << parcels, remainingAmount, cashOutRecords, seen >>
     ELSE Respond(r, "RiderNotFound")
  /\ reads' = [reads EXCEPT ![r] = @ + 1]
  /\ UNCHANGED << rev, ridersCollection, parcelsCollection, cashOutCollection, body,
                  writes, failures >>

\* parcelsCollection.updateOne({_id}, {$set: {assigned_rider, delivery_status: "in-transit"}})
UpdateParcel1(r) ==
  /\ rev = 1 /\ pc[r] = "updateParcel"
  /\ parcelsCollection' =
       [parcelsCollection EXCEPT ![body[r].parcelId].assigned_rider = body[r].riderEmail,
                                 ![body[r].parcelId].delivery_status = "in-transit"]
  /\ writes' = [writes EXCEPT ![r] = @ + 1]
  /\ Goto(r, "updateRider")
  /\ UNCHANGED << rev, ridersCollection, cashOutCollection, body, parcels,
                  remainingAmount, cashOutRecords, seen, reads, failures >>

\* ridersCollection.updateOne({email}, {$set: {work_status: "in-delivery"}})
\* and the response "Rider assigned"
UpdateRider1(r) ==
  /\ rev = 1 /\ pc[r] = "updateRider"
  /\ ridersCollection' = [ridersCollection EXCEPT ![body[r].riderEmail] = "in-delivery"]
  /\ writes' = [writes EXCEPT ![r] = @ + 1]
  /\ Respond(r, "RiderAssigned")
  /\ UNCHANGED << rev, parcelsCollection, cashOutCollection, body, reads, failures >>

NextAssign1 ==
  \E r \in ReqIds :
    AssignRequest1(r) \/ FindRider1(r) \/ UpdateParcel1(r) \/ UpdateRider1(r)

\* Revision 1: assign-rider requests interleaved.
SpecAssign1 == InitAssign1 /\ [][NextAssign1]_vars

\* ===================================================================== claims
RECURSIVE Amount(_, _, _)
\* the sum of the amounts of the ledger entries e of sequence led with e[field] = v
Amount(led, field, v) ==
  IF led = << >> THEN 0
  ELSE (IF Head(led)[field] = v THEN Head(led).amount ELSE 0) + Amount(Tail(led), field, v)

\* the commission of stored parcel i, from its own cost and regions
earning(i) == totalEarning(parcelsCollection[i])

\* C1: in every reachable state every parcel has 0 <= paid_amount <= earning,
\* earning being the commission derived from the parcel's cost and regions.
C1_PaidWithinEarning ==
  \A i \in ParcelIds :
    /\ 0 <= parcelsCollection[i].paid_amount
    /\ parcelsCollection[i].paid_amount <= earning(i)

\* C2: in every reachable state, for every parcel, earning_paid is true
\* exactly when paid_amount >= earning.
C2_FlagIsComparison ==
  \A i \in ParcelIds :
    parcelsCollection[i].earning_paid = (parcelsCollection[i].paid_amount >= earning(i))

\* C3: whenever no cash-out request is mid-execution (also after one that
\* failed between two store writes), the ledger entries of each parcel sum
\* to that parcel's paid_amount.
C3_LedgerSumIsPaid ==
  Quiet =>
    \A i \in ParcelIds :
      Amount(cashOutCollection, "parcelId", i) = parcelsCollection[i].paid_amount

\* a step in which the store applies a parcel update of request r
AppliesUpdate(r) == pc[r] \in {"updateOne", "loop"} /\ writes'[r] = writes[r] + 1

\* C4: a per-parcel update is applied only if the paid_amount and earning_paid
\* the request read are still the stored ones (a stale update is rejected).
C4_StaleUpdateRejected ==
  [][\A r \in ReqIds :
       AppliesUpdate(r) =>
         LET p == Head(parcels[r])
         IN  /\ p.paid_amount = parcelsCollection[p._id].paid_amount
             /\ p.earning_paid = parcelsCollection[p._id].earning_paid]_vars

RiderWide(r) ==
  /\ pc[r] # "idle"
  /\ body[r].parcelId = NoParcel /\ body[r].riderEmail # NoRider
  /\ body[r].amount >= MinCashOut

C7_AllOrNothing ==
  \A r \in ReqIds : writes[r] = 0 \/ (pc[r] = "done" /\ res[r] = "Success")

\* C8: a request whose amount is missing, not positive or below 200 is
\* answered BelowMinimum at once, having read nothing and written nothing.
C8_BelowMinimumFirst ==
  \A r \in ReqIds :
    (pc[r] # "idle" /\ body[r].amount < MinCashOut) =>
      /\ pc[r] = "done" /\ res[r] = "BelowMinimum"
      /\ reads[r] = 0 /\ writes[r] = 0

C8_Witness ==
  \E r \in ReqIds :
    /\ pc[r] = "done" /\ res[r] = "BelowMinimum"
    /\ body[r].amount = 100 /\ body[r].riderEmail = "r1" /\ body[r].parcelId = NoParcel
    /\ eligible_parcels("r1") # {}

\* a step in which the store answers the read of rider-wide request r
AnswersFind(r) == RiderWide(r) /\ pc[r] = "find" /\ reads'[r] = reads[r] + 1

C10_NothingEligibleFails ==
  [][\A r \in ReqIds :
       (AnswersFind(r) /\ eligible_parcels(body[r].riderEmail) = {}) =>
         res'[r] = "NoEarningsAvailable"]_vars

\* a step in which the store applies a write of request r for the parcel at
\* the head of its documents: a parcel update or the ledger entry of a named
\* parcel
WritesFor(r) ==
  pc[r] \in {"updateOne", "loop", "insertOne"} /\ writes'[r] = writes[r] + 1

\* C11: no cash-out request, named-parcel or rider-wide, increases
\* paid_amount, sets earning_paid or writes a ledger entry for a parcel whose
\* delivery_status was not delivered or service-center-delivered when the
\* request selected (read) it.
C11_OnlyTerminalParcelsPaid ==
  [][\A r \in ReqIds :
       WritesFor(r) => Head(parcels[r]).delivery_status \in Terminal]_vars

\* C12: every parcel update and ledger entry written by a request is for a
\* parcel whose assigned rider is the identity of the caller's verified token,
\* whatever rider email or parcel id the body carries.
C12_OnlyCallersParcelsPaid ==
  [][/\ \A r \in ReqIds :
          WritesFor(r) => Head(parcels[r]).assigned_rider = decoded(r).email
     /\ \A k \in DOMAIN cashOutCollection' :
          parcelsCollection[cashOutCollection'[k].parcelId].assigned_rider
            = decoded(cashOutCollection'[k].req).email]_vars

\* request r names a parcel
NamedParcel(r) ==
  /\ pc[r] # "idle"
  /\ body[r].parcelId # NoParcel
  /\ body[r].amount >= MinCashOut

\* a step in which the store answers the findOne of request r
AnswersFindOne(r) == NamedParcel(r) /\ pc[r] = "findOne" /\ reads'[r] = reads[r] + 1

\* what is still owed on stored parcel i
outstanding(i) == earning(i) - parcelsCollection[i].paid_amount

\* C13: a named-parcel request for more than the outstanding balance
\* (earning - paid_amount) of a parcel that is not yet settled is answered
\* InsufficientEarnings by the step that reads the parcel, which changes
\* neither a parcel nor the ledger; the amount is never capped.
C13_NamedOverRequestFails ==
  [][\A r \in ReqIds :
       (/\ AnswersFindOne(r)
        /\ body[r].parcelId \in ParcelIds
        /\ outstanding(body[r].parcelId) > 0
        /\ body[r].amount > outstanding(body[r].parcelId)) =>
         /\ pc'[r] = "done" /\ res'[r] = "InsufficientEarnings"
         /\ writes[r] = 0
         /\ UNCHANGED << parcelsCollection, cashOutCollection >>]_vars

\* C14: a named-parcel request for an amount that does not exceed the
\* parcel's outstanding commission (and is at least the minimum; smaller
\* amounts are C8's) is not rejected when it reads the parcel, and when it
\* answers success the parcel's paid_amount has grown by exactly the amount,
\* earning_paid tells whether the parcel is now settled, and the request has
\* written exactly one ledger entry, of that amount, for that parcel
\* (requests served one at a time).
C14_NamedWithinBalancePays ==
  [][\A r \in ReqIds :
       /\ (/\ AnswersFindOne(r)
           /\ body[r].parcelId \in ParcelIds
           /\ body[r].amount <= outstanding(body[r].parcelId)) =>
            pc'[r] = "updateOne"
       /\ (/\ NamedParcel(r)
           /\ pc[r] = "insertOne" /\ pc'[r] = "done" /\ res'[r] = "Success") =>
            LET p == Head(parcels[r])
                after == parcelsCollection'[p._id]
                mine == { k \in DOMAIN cashOutCollection' : cashOutCollection'[k].req = r }
            IN  /\ after.paid_amount = p.paid_amount + body[r].amount
                /\ after.earning_paid = (after.paid_amount >= totalEarning(p))
                /\ Cardinality(mine) = 1
                /\ \A k \in mine : /\ cashOutCollection'[k].amount = body[r].amount
                                    /\ cashOutCollection'[k].parcelId = p._id]_vars

RECURSIVE Plan(_, _)
\* the settlement plan for balances ows = o1..on and amount left: parcel i
\* gets min(oi, max(0, left)), a parcel that gets 0 is not in the plan
Plan(ows, left) ==
  IF ows = << >> THEN << >>
  ELSE LET pay == Min(Head(ows).outstanding, IF left > 0 THEN left ELSE 0)
           rest == Plan(Tail(ows), left - pay)
       IN  IF pay = 0 THEN rest
           ELSE << [parcelId |-> Head(ows).parcelId, amount |-> pay] >> \o rest

\* C15: when the loop of a rider-wide request for r <= o1 + ... + on has
\* ended, the records it has collected are, in order, the parcels pi with
\* amount min(oi, max(0, r - (o1 + ... + o(i-1)))) > 0, the oi being the
\* outstanding balances of the rider's eligible parcels when the request
\* read them; it has updated one parcel per record and nothing remains.
C15_GreedyPlan ==
  \A r \in ReqIds :
    (/\ RiderWide(r) /\ pc[r] = "insertMany"
     /\ body[r].amount <= seen[r].avail) =>
      /\ [k \in 1..Len(cashOutRecords[r]) |->
            [parcelId |-> cashOutRecords[r][k].parcelId,
             amount |-> cashOutRecords[r][k].amount]]
           = Plan(seen[r].owed, body[r].amount)
      /\ writes[r] = Len(cashOutRecords[r])
      /\ remainingAmount[r] = 0

\* C16: a rider-wide request pays the eligible parcels oldest assignment
\* first: when its loop has ended, a parcel has a record only if every
\* eligible parcel of the rider that was assigned earlier and had a balance
\* has a record for its whole balance (parcels assigned in any order).
C16_OldestAssignmentFirst ==
  \A r \in ReqIds :
    (RiderWide(r) /\ pc[r] = "insertMany") =>
      \A k \in DOMAIN cashOutRecords[r], o \in DOMAIN seen[r].owed :
        LET paid == cashOutRecords[r][k].parcelId
            older == seen[r].owed[o]
        IN  (/\ older.outstanding > 0
             /\ parcelsCollection[older.parcelId].assigned_at
                  < parcelsCollection[paid].assigned_at) =>
              \E j \in DOMAIN cashOutRecords[r] :
                /\ cashOutRecords[r][j].parcelId = older.parcelId
                /\ cashOutRecords[r][j].amount = older.outstanding

\* C17: the commission a request works with for a parcel it has selected is
\* cost / 10 when sender_region equals receiver_region and cost / 5
\* otherwise, from the parcel's own cost and regions, not a stored earning.
C17_CommissionFromCostAndRegions ==
  \A r \in ReqIds : \A k \in DOMAIN parcels[r] :
    LET p == parcels[r][k]
    IN  commissionUsed(p) =
          (IF p.sender_region = p.receiver_region THEN p.cost \div 10 ELSE p.cost \div 5)

\* C18: every ledger entry, written or collected for writing, has a strictly
\* positive amount, and no request selects a parcel whose commission is 0.
C18_NoZeroAmounts ==
  /\ \A k \in DOMAIN cashOutCollection : cashOutCollection[k].amount > 0
  /\ \A r \in ReqIds :
       /\ \A k \in DOMAIN cashOutRecords[r] : cashOutRecords[r][k].amount > 0
       /\ \A k \in DOMAIN parcels[r] : commissionUsed(parcels[r][k]) > 0

\* C20: once a parcel's earning_paid is true no step sets it back to false,
\* in any interleaving of cash-out requests.
C20_SettledStaysSettled ==
  [][\A i \in ParcelIds :
       parcelsCollection[i].earning_paid => parcelsCollection'[i].earning_paid]_vars

\* C19: a parcel created by POST /parcels starts with paid_amount 0 and
\* earning_paid false whatever the body carries, and no parcel handler other
\* than cash-out changes the paid_amount of a parcel afterwards.
C19_CreatedUnpaid ==
  [][\A i \in ParcelIds :
       /\ (~Exists(i) /\ parcelsCollection'[i] # NotInStore) =>
            /\ parcelsCollection'[i].paid_amount = 0
            /\ parcelsCollection'[i].earning_paid = FALSE
       /\ Exists(i) =>
            parcelsCollection'[i].paid_amount = parcelsCollection[i].paid_amount]_vars

\* C21: once a parcel's delivery_status is delivered or
\* service-center-delivered, no update-status or assign-rider request changes
\* its delivery_status or its assigned_rider.
C21_TerminalStatusStays ==
  [][\A i \in ParcelIds :
       parcelsCollection[i].delivery_status \in Terminal =>
         /\ parcelsCollection'[i].delivery_status = parcelsCollection[i].delivery_status
         /\ parcelsCollection'[i].assigned_rider = parcelsCollection[i].assigned_rider]_vars

\* a step in which request r writes to parcel i as part of its plan: the
\* parcel it names, or the parcel for which its loop collects a record
PaysParcel(r, i) ==
  /\ writes'[r] = writes[r] + 1
  /\ \/ body[r].parcelId = i
     \/ /\ body[r].parcelId = NoParcel
        /\ Len(cashOutRecords'[r]) = Len(cashOutRecords[r]) + 1
        /\ cashOutRecords'[r][Len(cashOutRecords'[r])].parcelId = i

\* C22: a step of a cash-out request leaves cost, regions, delivery_status,
\* assigned_rider and assigned_at of every parcel as they were, changes only
\* a parcel of the request's plan, and leaves every ledger entry there is in
\* its place and unchanged.
C22_CashOutFrame ==
  [][/\ \A i \in ParcelIds :
          LET old == parcelsCollection[i]
              new == parcelsCollection'[i]
          IN  /\ new.cost = old.cost
              /\ new.sender_region = old.sender_region
              /\ new.receiver_region = old.receiver_region
              /\ new.delivery_status = old.delivery_status
              /\ new.assigned_rider = old.assigned_rider
              /\ new.assigned_at = old.assigned_at
              /\ new # old => \E r \in ReqIds : PaysParcel(r, i)
     /\ Len(cashOutCollection') >= Len(cashOutCollection)
     /\ \A k \in DOMAIN cashOutCollection :
          cashOutCollection'[k] = cashOutCollection[k]]_vars

C22_Witness ==
  /\ Len(cashOutCollection) >= 2
  /\ \E r \in ReqIds :
       /\ RiderWide(r) /\ pc[r] = "done" /\ res[r] = "Success"
       /\ \E i, j \in eligible_parcels(body[r].riderEmail) :
            /\ parcelsCollection[i].paid_amount = 0
            /\ parcelsCollection[j].paid_amount > 0

\* request r takes a step
StepOf(r) == pc'[r] # pc[r] \/ reads'[r] # reads[r] \/ writes'[r] # writes[r]

\* request r is about to update a parcel that has been modified since the
\* request read it
Conflict(r) ==
  /\ pc[r] \in {"updateOne", "loop"}
  /\ LET p == Head(parcels[r])
     IN  \/ p.paid_amount # parcelsCollection[p._id].paid_amount
         \/ p.earning_paid # parcelsCollection[p._id].earning_paid

\* C23: a request that meets a concurrent modification writes nothing in
\* that step and either goes back to its read (a retry) or ends with
\* SettlementConflict (or with the failure of the store); and a step in
\* which a store call fails never ends the request with success.
C23_ConflictRetriedOrSurfaced ==
  [][\A r \in ReqIds :
       /\ (Conflict(r) /\ StepOf(r)) =>
            /\ writes'[r] = writes[r]
            /\ \/ pc'[r] \in {"find", "findOne"}
               \/ pc'[r] = "done" /\ res'[r] \in {"SettlementConflict", "ServerError"}
       /\ (StepOf(r) /\ failures' # failures) =>
            pc'[r] = "done" /\ res'[r] = "ServerError"]_vars

\* C24: with revision 2, requests served one at a time, no store call
\* failing, and parcels created without earnings fields, every parcel has
\* 0 <= paid_amount <= commission and earning_paid = (paid_amount >=
\* commission) in every state.
C24_Rev2SequentialKeepsLedgerState ==
  \A i \in ParcelIds :
    LET p == parcelsCollection[i]
        commission == totalEarning(p)
    IN  /\ 0 <= p.paid_amount /\ p.paid_amount <= commission
        /\ p.earning_paid = (p.paid_amount >= commission)

C24_Witness ==
  /\ Quiet
  /\ \E r \in ReqIds : RiderWide(r) /\ pc[r] = "done" /\ res[r] = "Success"
  /\ \E i, j \in ParcelIds :
       /\ parcelsCollection[i].paid_amount = earning(i)
       /\ parcelsCollection[i].earning_paid
       /\ 0 < parcelsCollection[j].paid_amount
       /\ parcelsCollection[j].paid_amount < earning(j)
       /\ ~parcelsCollection[j].earning_paid

\* C25: under any interleaving of assign-rider requests of revision 1, at
\* most one request naming a given rider is answered "Rider assigned" (the
\* first success makes the rider in-delivery, and nothing makes the rider
\* available again).
C25_RiderAssignedOnce ==
  \A e \in Riders :
    Cardinality({ r \in ReqIds :
                    /\ pc[r] = "done" /\ res[r] = "RiderAssigned"
                    /\ body[r].riderEmail = e }) <= 1

====
